---------------------------- MODULE Spec2Model ----------------------------
(***************************************************************************)
(* Model of model_price.py: the World Cup ticket resale toy model.         *)
(*                                                                         *)
(* The script is a Streamlit page: every interaction runs it from top to   *)
(* bottom.  One run reads the widgets, normalizes the weights, stops with  *)
(* an error when no distribution can be formed, computes the analytic      *)
(* figures, draws the Monte Carlo sample and summarizes it.                *)
(*                                                                         *)
(* Numbers are exact rationals <<num, den>> in lowest terms with den > 0:  *)
(* the arithmetic of the script is modelled as real arithmetic, the        *)
(* rounding and the range of binary64 are not.                             *)
(***************************************************************************)
EXTENDS Integers, Sequences, FiniteSets, TLC

VARIABLES
    pc,                  \* position of the run in the script
    n_tickets,           \* line 25, 0 before the widget is read
    weights,             \* line 39
    probs,               \* lines 40-43
    multipliers,         \* line 50
    expected_value,      \* line 58
    p_top,               \* line 61
    p_at_least_one_top,  \* line 62
    n_sims,              \* line 94, 0 before the slider is read
    draw_indices,        \* line 104
    portfolio_values,    \* line 105
    mean_sim,            \* line 107
    quantiles,           \* line 108: <<q10, q25, q50, q75, q90>>
    shown,               \* what the page displays in this run
    stream,              \* the uniforms rng yielded in this run, when observed
    prev                 \* <<the last observed simulation before this run>>

vars == <<pc, n_tickets, weights, probs, multipliers, expected_value, p_top,
          p_at_least_one_top, n_sims, draw_indices, portfolio_values,
          mean_sim, quantiles, shown, stream, prev>>

\* A value that is not computed yet.
None == <<>>

-----------------------------------------------------------------------------
(* Bounds and input sets *)

\* Scaled-down range of the n_tickets widget in runs that simulate.
MaxTickets == 3
\* Scaled-down range of the n_sims slider.
MaxSims == 3
\* Largest number of draws, n_sims * n_tickets, of a simulation.
MaxDraws == 6
\* Largest exponent n for which (1 - p_top) ** n is evaluated when
\* 1 - p_top is neither 0 nor 1.
MaxExp == 8
\* max_value of the n_tickets widget.
MAX_TICKETS == 104
\* rng.choice(3, ...): the number of categories, 0 = TOP, 1 = MID, 2 = LOW.
NumCategories == 3

-----------------------------------------------------------------------------
(* Rational arithmetic *)

Abs(x) == IF x < 0 THEN -x ELSE x

RECURSIVE GCD(_, _)
GCD(a, b) == IF b = 0 THEN a ELSE GCD(b, a % b)

Norm(n, d) ==
    LET g == GCD(Abs(n), d)
    IN  <<n \div g, d \div g>>

Rat(n) == <<n, 1>>
Frac(n, d) == Norm(n, d)
Zero == Rat(0)
One == Rat(1)

Add(x, y) == Norm(x[1] * y[2] + y[1] * x[2], x[2] * y[2])
Sub(x, y) == Norm(x[1] * y[2] - y[1] * x[2], x[2] * y[2])
Mul(x, y) == Norm(x[1] * y[1], x[2] * y[2])
Div(x, y) ==
    IF y[1] > 0 THEN Norm(x[1] * y[2], x[2] * y[1])
    ELSE Norm(-(x[1] * y[2]), x[2] * (-y[1]))
Leq(x, y) == x[1] * y[2] <= y[1] * x[2]
Lt(x, y) == x[1] * y[2] < y[1] * x[2]
Floor(x) == x[1] \div x[2]

RECURSIVE Pow(_, _)
Pow(x, n) ==
    IF n = 0 THEN One
    ELSE LET h == Pow(x, n \div 2)
         IN  IF n % 2 = 0 THEN Mul(h, h) ELSE Mul(x, Mul(h, h))

RECURSIVE SumSeq(_)
SumSeq(s) == IF s = <<>> THEN Zero ELSE Add(Head(s), SumSeq(Tail(s)))

-----------------------------------------------------------------------------
(* The computations of the script *)

\* Normalize dividing by the largest weight instead of the total.
NormalizeByMax(w) ==
    LET big == CHOOSE x \in {w[1], w[2], w[3]} :
                   \A y \in {w[1], w[2], w[3]} : Leq(y, x)
    IN  IF SumSeq(w) = Zero
        THEN <<Zero, Zero, Zero>>
        ELSE <<Div(w[1], big), Div(w[2], big), Div(w[3], big)>>

\* weights.sum() == 0 ? zeros : weights / weights.sum()
Normalize(w) ==
    IF SumSeq(w) = Zero
    THEN <<Zero, Zero, Zero>>
    ELSE <<Div(w[1], SumSeq(w)), Div(w[2], SumSeq(w)), Div(w[3], SumSeq(w))>>

\* Dot taking the raw weights in place of the distribution.
DotOfWeights(d, m) == SumSeq([i \in 1..Len(d) |-> Mul(weights[i], m[i])])

\* np.dot(probs, multipliers)
Dot(d, m) == SumSeq([i \in 1..Len(d) |-> Mul(d[i], m[i])])

\* PAtLeastOneTop without the inner complement: 1.0 - p_top ** n_tickets.
PAtLeastOneTopNoComplement(p, n) == Sub(One, Pow(p, n))

\* 1.0 - (1.0 - p_top) ** n_tickets
PAtLeastOneTop(p, n) == Sub(One, Pow(Sub(One, p), n))

\* The cdf rng.choice builds from p: cumsum(p), divided by its last entry.
Cdf(p) ==
    LET c == <<p[1], Add(p[1], p[2]), Add(Add(p[1], p[2]), p[3])>>
    IN  <<Div(c[1], c[3]), Div(c[2], c[3]), Div(c[3], c[3])>>

\* SearchSorted with side="left": the number of entries < u.
SearchSortedLeft(cdf, u) == Cardinality({k \in 1..Len(cdf) : Lt(cdf[k], u)})

\* cdf.searchsorted(u, side="right"): the number of entries <= u.
SearchSorted(cdf, u) == Cardinality({k \in 1..Len(cdf) : Leq(cdf[k], u)})

\* Choice without p=probs: the three categories equally likely.
ChoiceIgnoresP(p, u) ==
    SearchSorted(Cdf(<<Frac(1, 3), Frac(1, 3), Frac(1, 3)>>), u)

\* One draw of rng.choice(3, p=p) from the uniform u of [0, 1).
Choice(p, u) == SearchSorted(Cdf(p), u)

\* DrawIndices memoized on the parameters alone: a simulation with the
\* parameters of the remembered one replays the remembered uniforms.
DrawIndicesCached(p, ns, nt, u) ==
    LET hit == /\ prev # None
               /\ prev[1].probs = p
               /\ prev[1].n_sims = ns
               /\ prev[1].n_tickets = nt
        v   == IF hit THEN prev[1].stream ELSE u
    IN  [i \in 1..ns |-> [j \in 1..nt |-> Choice(p, v[(i - 1) * nt + j])]]

\* rng.choice(3, size=(ns, nt), p=p): the uniforms fill the matrix row by row.
DrawIndices(p, ns, nt, u) ==
    [i \in 1..ns |-> [j \in 1..nt |-> Choice(p, u[(i - 1) * nt + j])]]

\* ndarray.mean()
Mean(s) == Div(SumSeq(s), Rat(Len(s)))

\* PortfolioValues reducing along axis 0: one mean per ticket position.
PortfolioValuesAxis0(m, draws) ==
    [j \in 1..Len(draws[1]) |->
        Mean([i \in 1..Len(draws) |-> m[draws[i][j] + 1]])]

\* multipliers[draw_indices].mean(axis=1)
PortfolioValues(m, draws) ==
    [i \in 1..Len(draws) |->
        Mean([j \in 1..Len(draws[i]) |-> m[draws[i][j] + 1]])]

\* The sorted copy np.quantile works on.
RECURSIVE Insert(_, _)
Insert(x, s) ==
    IF s = <<>> THEN <<x>>
    ELSE IF Leq(x, Head(s)) THEN <<x>> \o s
    ELSE <<Head(s)>> \o Insert(x, Tail(s))

RECURSIVE Sort(_)
Sort(s) == IF s = <<>> THEN <<>> ELSE Insert(Head(s), Sort(Tail(s)))

\* Quantile interpolating on the values as drawn, without sorting them.
QuantileUnsorted(values, q) ==
    LET s     == values
        n     == Len(s)
        pos   == Mul(q, Rat(n - 1))
        lo    == Floor(pos)
        hi    == IF lo + 1 > n - 1 THEN n - 1 ELSE lo + 1
        gamma == Sub(pos, Rat(lo))
    IN  Add(s[lo + 1], Mul(Sub(s[hi + 1], s[lo + 1]), gamma))

\* np.quantile(values, q), method "linear": the virtual index q * (n - 1),
\* interpolated between the order statistics on both sides of it.
Quantile(values, q) ==
    LET s     == Sort(values)
        n     == Len(s)
        pos   == Mul(q, Rat(n - 1))
        lo    == Floor(pos)
        hi    == IF lo + 1 > n - 1 THEN n - 1 ELSE lo + 1
        gamma == Sub(pos, Rat(lo))
    IN  Add(s[lo + 1], Mul(Sub(s[hi + 1], s[lo + 1]), gamma))

\* [0.1, 0.25, 0.5, 0.75, 0.9]
QuantileLevels == <<Frac(1, 10), Frac(1, 4), Frac(1, 2), Frac(3, 4), Frac(9, 10)>>

Quantiles(values) == [k \in 1..Len(QuantileLevels) |-> Quantile(values, QuantileLevels[k])]

-----------------------------------------------------------------------------
(* Inputs *)

Vec(a, b, c) == <<a, b, c>>

\* The widgets' initial values: lines 35-37 and 46-48.
DefaultWeights == Vec(Frac(1, 10), Frac(6, 10), Frac(3, 10))
DefaultMultipliers == Vec(Rat(3), Rat(1), Frac(1, 2))

\* Weights of the runs that simulate: every pattern of absent categories.
WeightVectors == {Vec(Rat(a), Rat(b), Rat(c)) : a, b, c \in {0, 1}}

MultiplierVectors ==
    { DefaultMultipliers,
      Vec(Rat(1), Rat(1), Rat(1)),
      Vec(Rat(0), Rat(2), Rat(1)) }

\* The points of [0, 1) the generator's uniforms are taken from: every
\* interval of a cdf built from WeightVectors holds one of them.
Uniforms == {Frac(0, 1), Frac(1, 3), Frac(2, 3)}

Configs == [n : 1..MaxTickets, w : WeightVectors, m : MultiplierVectors]
SimCounts == 1..MaxSims

\* Inputs of the runs that stop after the analytic figures: unequal weights,
\* weights that do not sum to 1, and every ticket count of the widget where
\* the power stays within 32-bit integers.
AnalyticWeights ==
    { DefaultWeights,
      Vec(Rat(0), Rat(0), Rat(0)),
      Vec(Rat(2), Rat(0), Rat(0)),
      Vec(Rat(0), Rat(1), Rat(3)),
      Vec(Rat(0), Frac(1, 2), Rat(0)),
      Vec(Rat(1), Rat(2), Rat(1)),
      Vec(Frac(1, 2), Frac(1, 4), Frac(1, 4)) }

AnalyticMultipliers ==
    { DefaultMultipliers,
      Vec(Rat(0), Rat(0), Rat(0)),
      Vec(Rat(2), Rat(1), Rat(4)) }

AnalyticConfigs ==
    { c \in [n : 1..MAX_TICKETS, w : AnalyticWeights, m : AnalyticMultipliers] :
        \/ c.n <= MaxExp
        \/ Normalize(c.w)[1] \in {Zero, One} }

\* Inputs of the runs that are compared pairwise.
PairConfigs ==
    [n : {1}, w : {Vec(Rat(1), Rat(1), Rat(0)), Vec(Rat(1), Rat(1), Rat(1))},
     m : {DefaultMultipliers}]
PairSimCounts == {2}

-----------------------------------------------------------------------------
(* The run *)

Init ==
    /\ pc = "inputs"
    /\ n_tickets = 0
    /\ weights = None
    /\ probs = None
    /\ multipliers = None
    /\ expected_value = None
    /\ p_top = None
    /\ p_at_least_one_top = None
    /\ n_sims = 0
    /\ draw_indices = None
    /\ portfolio_values = None
    /\ mean_sim = None
    /\ quantiles = None
    /\ shown = {}
    /\ stream = None
    /\ prev = None

\* Lines 25-50: the sidebar widgets are read and the weights normalized.
ReadInputs(C) ==
    /\ pc = "inputs"
    /\ \E c \in C :
        /\ n_tickets' = c.n
        /\ weights' = c.w
        /\ probs' = Normalize(c.w)
        /\ multipliers' = c.m
    /\ pc' = "check"
    /\ UNCHANGED <<expected_value, p_top, p_at_least_one_top, n_sims,
                   draw_indices, portfolio_values, mean_sim, quantiles,
                   shown, stream, prev>>

\* CheckProbs with st.error but without st.stop: the script runs on.
CheckProbsNoStop ==
    /\ pc = "check"
    /\ shown' = IF SumSeq(probs) = Zero THEN shown \cup {"error"} ELSE shown
    /\ pc' = "calc"
    /\ UNCHANGED <<n_tickets, weights, probs, multipliers, expected_value,
                   p_top, p_at_least_one_top, n_sims, draw_indices,
                   portfolio_values, mean_sim, quantiles, stream, prev>>

\* Lines 54-56: st.error and st.stop when probs sums to 0.
CheckProbs ==
    /\ pc = "check"
    /\ IF SumSeq(probs) = Zero
       THEN /\ shown' = shown \cup {"error"}
            /\ pc' = "stopped"
       ELSE /\ shown' = shown
            /\ pc' = "calc"
    /\ UNCHANGED <<n_tickets, weights, probs, multipliers, expected_value,
                   p_top, p_at_least_one_top, n_sims, draw_indices,
                   portfolio_values, mean_sim, quantiles, stream, prev>>

\* Lines 58-88: the analytic figures and the summary that shows them.
Analytic ==
    /\ pc = "calc"
    /\ expected_value' = Dot(probs, multipliers)
    /\ p_top' = probs[1]
    /\ p_at_least_one_top' = PAtLeastOneTop(probs[1], n_tickets)
    /\ shown' = shown \cup {"summary"}
    /\ pc' = "simulate"
    /\ UNCHANGED <<n_tickets, weights, probs, multipliers, n_sims,
                   draw_indices, portfolio_values, mean_sim, quantiles,
                   stream, prev>>

\* Lines 92-105: the slider is read, a generator is seeded from the
\* system's entropy and the portfolios are drawn.  S is the slider's range,
\* cut to MaxDraws draws; observe records the uniforms the generator yielded.
Simulate(S, observe) ==
    /\ pc = "simulate"
    /\ \E ns \in {k \in S : k * n_tickets <= MaxDraws} :
        \E u \in [1..(ns * n_tickets) -> Uniforms] :
            /\ n_sims' = ns
            /\ stream' = IF observe THEN u ELSE None
            /\ draw_indices' = DrawIndices(probs, ns, n_tickets, u)
            /\ portfolio_values' = PortfolioValues(multipliers, draw_indices')
    /\ pc' = "summarize"
    /\ UNCHANGED <<n_tickets, weights, probs, multipliers, expected_value,
                   p_top, p_at_least_one_top, mean_sim, quantiles, shown,
                   prev>>

\* Summarize taking the mean of the multipliers, not of the portfolio values.
SummarizeMultipliersMean ==
    /\ pc = "summarize"
    /\ mean_sim' = Mean(multipliers)
    /\ quantiles' = Quantiles(portfolio_values)
    /\ shown' = shown \cup {"simulation"}
    /\ pc' = "done"
    /\ UNCHANGED <<n_tickets, weights, probs, multipliers, expected_value,
                   p_top, p_at_least_one_top, n_sims, draw_indices,
                   portfolio_values, stream, prev>>

\* Lines 107-130: the mean, the five quantiles and their display.
Summarize ==
    /\ pc = "summarize"
    /\ mean_sim' = Mean(portfolio_values)
    /\ quantiles' = Quantiles(portfolio_values)
    /\ shown' = shown \cup {"simulation"}
    /\ pc' = "done"
    /\ UNCHANGED <<n_tickets, weights, probs, multipliers, expected_value,
                   p_top, p_at_least_one_top, n_sims, draw_indices,
                   portfolio_values, stream, prev>>

\* The simulation of this run, as the next run remembers it.
Observed ==
    [n_tickets |-> n_tickets, probs |-> probs, multipliers |-> multipliers,
     n_sims |-> n_sims, stream |-> stream,
     portfolio_values |-> portfolio_values]

\* A widget changes: Streamlit drops the run and starts the script again.
Rerun ==
    /\ pc # "inputs"
    /\ pc' = "inputs"
    /\ n_tickets' = 0
    /\ weights' = None
    /\ probs' = None
    /\ multipliers' = None
    /\ expected_value' = None
    /\ p_top' = None
    /\ p_at_least_one_top' = None
    /\ n_sims' = 0
    /\ draw_indices' = None
    /\ portfolio_values' = None
    /\ mean_sim' = None
    /\ quantiles' = None
    /\ shown' = {}
    /\ stream' = None
    /\ prev' = IF stream # None THEN <<Observed>> ELSE prev

Next ==
    \/ ReadInputs(Configs)
    \/ CheckProbs
    \/ Analytic
    \/ Simulate(SimCounts, FALSE)
    \/ Summarize
    \/ Rerun

Spec == Init /\ [][Next]_vars

NextAnalytic ==
    \/ ReadInputs(AnalyticConfigs)
    \/ CheckProbs
    \/ Analytic
    \/ Rerun

SpecAnalytic == Init /\ [][NextAnalytic]_vars

NextPair ==
    \/ ReadInputs(PairConfigs)
    \/ CheckProbs
    \/ Analytic
    \/ Simulate(PairSimCounts, TRUE)
    \/ Summarize
    \/ Rerun

SpecPair == Init /\ [][NextPair]_vars

-----------------------------------------------------------------------------
(* Properties *)

Categories == 1..NumCategories

\* The categories the normalized distribution gives a positive probability.
Positive == {c \in Categories : Lt(Zero, probs[c])}

\* The values one draw can produce: one multiplier per reachable category.
Support == {multipliers[Choice(probs, u) + 1] : u \in Uniforms}

Derived ==
    <<expected_value, p_top, p_at_least_one_top, draw_indices,
      portfolio_values, mean_sim, quantiles>>

NothingDerived ==
    /\ Derived = <<None, None, None, None, None, None, None>>
    /\ n_sims = 0
    /\ shown \subseteq {"error"}

\* C1: when the three raw weights sum to exactly 0 the run shows the error
\* and halts with the expected value, the at-least-one-TOP probability, the
\* draw and the summary statistics neither computed nor shown; when the sum
\* is not 0 the run never halts there and never shows the error.
C1_ZeroSumHalts ==
    pc # "inputs" =>
        IF SumSeq(weights) = Zero
        THEN /\ pc \in {"check", "stopped"}
             /\ NothingDerived
             /\ pc = "stopped" => "error" \in shown
        ELSE /\ pc # "stopped"
             /\ "error" \notin shown

C1_Witness ==
    /\ pc = "stopped"
    /\ weights = Vec(Zero, Zero, Zero)
    /\ shown = {"error"}
    /\ NothingDerived

\* C2: for non-negative weights with a positive sum, the normalized entries
\* are non-negative, sum to 1 and keep the proportions of the weights:
\* probs[i] * weights[j] = probs[j] * weights[i], and probs[i] * sum = weights[i].
C2_NormalizedDistribution ==
    (pc # "inputs" /\ Lt(Zero, SumSeq(weights))) =>
        /\ \A i \in Categories : Leq(Zero, probs[i])
        /\ Add(Add(probs[1], probs[2]), probs[3]) = One
        /\ \A i, j \in Categories :
              Mul(probs[i], weights[j]) = Mul(probs[j], weights[i])
        /\ \A i \in Categories :
              Mul(probs[i], Add(Add(weights[1], weights[2]), weights[3])) = weights[i]

C2_Witness ==
    /\ pc = "check"
    /\ weights = Vec(Rat(0), Rat(1), Rat(3))
    /\ probs = Vec(Zero, Frac(1, 4), Frac(3, 4))

\* C3: the expected value per ticket is
\* d[TOP] * m[TOP] + d[MID] * m[MID] + d[LOW] * m[LOW]; the distribution
\* [0.1, 0.6, 0.3] with the multipliers [3, 1, 0.5] gives 1.05.
C3_ExpectedValue ==
    expected_value # None =>
        /\ expected_value =
              Add(Add(Mul(probs[1], multipliers[1]), Mul(probs[2], multipliers[2])),
                  Mul(probs[3], multipliers[3]))
        /\ (/\ probs = Vec(Frac(1, 10), Frac(6, 10), Frac(3, 10))
            /\ multipliers = Vec(Rat(3), Rat(1), Frac(1, 2)))
              => expected_value = Frac(105, 100)

C3_Witness ==
    /\ probs = Vec(Frac(1, 10), Frac(6, 10), Frac(3, 10))
    /\ multipliers = Vec(Rat(3), Rat(1), Frac(1, 2))
    /\ expected_value = Frac(105, 100)

\* C4: the at-least-one-TOP probability is 0 when p_top = 0 and 1 when
\* p_top = 1, for every ticket count of the widget, 1..104.
C4_TopProbabilityEnds ==
    p_at_least_one_top # None =>
        /\ n_tickets \in 1..MAX_TICKETS
        /\ p_top = Zero => p_at_least_one_top = Zero
        /\ p_top = One => p_at_least_one_top = One

C4_Witness ==
    /\ n_tickets = MAX_TICKETS
    /\ p_top = One
    /\ p_at_least_one_top = One

\* The parameters of this run's simulation are those of the remembered one.
SameParameters ==
    /\ prev # None
    /\ portfolio_values # None
    /\ prev[1].n_tickets = n_tickets
    /\ prev[1].probs = probs
    /\ prev[1].multipliers = multipliers
    /\ prev[1].n_sims = n_sims

C6_SupportIsAllMultipliers ==
    (n_tickets = 1 /\ portfolio_values # None) =>
        /\ \A i \in 1..Len(portfolio_values) :
              portfolio_values[i] \in {multipliers[c] : c \in Categories}
        /\ Support = {multipliers[c] : c \in Categories}

\* C6 as amended: with one ticket every simulated value is the multiplier of
\* a category of positive probability, and the support of the simulation is
\* exactly the multipliers of those categories.
C6_SupportIsPositiveMultipliers ==
    (n_tickets = 1 /\ portfolio_values # None) =>
        /\ \A i \in 1..Len(portfolio_values) :
              portfolio_values[i] \in {multipliers[c] : c \in Positive}
        /\ Support = {multipliers[c] : c \in Positive}

C6_Witness ==
    /\ n_tickets = 1
    /\ pc = "done"
    /\ multipliers = DefaultMultipliers
    /\ Positive = {2, 3}
    /\ Support = {Rat(1), Frac(1, 2)}
    /\ {portfolio_values[i] : i \in 1..Len(portfolio_values)} = Support

\* C7: the five quantiles of a non-empty sequence of simulated values are
\* ordered, q10 <= q25 <= q50 <= q75 <= q90.
C7_QuantilesOrdered ==
    quantiles # None =>
        \A k \in 1..4 : Leq(quantiles[k], quantiles[k + 1])

C7_Witness ==
    /\ quantiles # None
    /\ n_sims = 3
    /\ Lt(portfolio_values[2], portfolio_values[3])
    /\ Lt(portfolio_values[3], portfolio_values[1])
    /\ \A k \in 1..4 : Lt(quantiles[k], quantiles[k + 1])

\* C8: the summary of a sequence that holds a single value x has mean x and
\* every one of the five quantiles equal to x.
C8_SingleValueSummary ==
    (quantiles # None /\ Len(portfolio_values) = 1) =>
        /\ mean_sim = portfolio_values[1]
        /\ \A k \in 1..5 : quantiles[k] = portfolio_values[1]

C8_Witness ==
    /\ pc = "done"
    /\ portfolio_values = <<Frac(3, 2)>>
    /\ mean_sim = Frac(3, 2)
    /\ quantiles = <<Frac(3, 2), Frac(3, 2), Frac(3, 2), Frac(3, 2), Frac(3, 2)>>

RECURSIVE RowTotal(_, _)
RowTotal(row, k) ==
    IF k = 0 THEN Zero
    ELSE Add(RowTotal(row, k - 1), multipliers[row[k] + 1])

\* C9: the Monte Carlo step returns n_sims values, one per portfolio, each
\* the arithmetic mean of the multipliers of n_tickets category indices of
\* {0, 1, 2}, one index per ticket and portfolio.
C9_OneMeanPerPortfolio ==
    portfolio_values # None =>
        /\ Len(portfolio_values) = n_sims
        /\ Len(draw_indices) = n_sims
        /\ \A i \in 1..n_sims :
              /\ Len(draw_indices[i]) = n_tickets
              /\ \A j \in 1..n_tickets : draw_indices[i][j] \in 0..2
              /\ Mul(portfolio_values[i], Rat(n_tickets))
                    = RowTotal(draw_indices[i], n_tickets)

C9_Witness ==
    /\ n_sims = 3
    /\ n_tickets = 2
    /\ multipliers = DefaultMultipliers
    /\ draw_indices = <<<<0, 1>>, <<2, 2>>, <<1, 0>>>>
    /\ portfolio_values = <<Rat(2), Frac(1, 2), Rat(2)>>

\* The smallest and the largest multiplier among the categories of positive
\* probability bound x.
WithinPositive(x) ==
    /\ \E c \in Positive : Leq(multipliers[c], x)
    /\ \E c \in Positive : Leq(x, multipliers[c])

\* C10: no category of normalized probability 0 is ever drawn, so every
\* simulated value, the simulated mean and the five quantiles lie between
\* the smallest and the largest multiplier of the categories of positive
\* probability.
C10_ZeroCategoriesNeverDrawn ==
    portfolio_values # None =>
        /\ \A i \in 1..n_sims : \A j \in 1..n_tickets :
              draw_indices[i][j] + 1 \in Positive
        /\ \A i \in 1..n_sims : WithinPositive(portfolio_values[i])
        /\ mean_sim # None =>
              /\ WithinPositive(mean_sim)
              /\ \A k \in 1..5 : WithinPositive(quantiles[k])

C10_Witness ==
    /\ pc = "done"
    /\ probs = Vec(Zero, Frac(1, 2), Frac(1, 2))
    /\ multipliers = DefaultMultipliers
    /\ n_sims = 2
    /\ n_tickets = 3
    /\ mean_sim = Frac(3, 4)

=============================================================================
